---- MODULE Spec2Model ----
(***************************************************************************)
(* Model of tp4000.py: the Dmm serial reader (synchronisation, the retry   *)
(* loop of read(), frame decoding) and the DmmValue interpreter.           *)
(*                                                                         *)
(* Python strings that are inspected character by character (the           *)
(* assembled value) are sequences of one-character strings; strings that   *)
(* are only concatenated and compared (the display text) are TLC strings.  *)
(* A float is kept as an exact decimal [neg, mant, exp10] standing for     *)
(* (-1)^neg * mant * 10^exp10; binary rounding is not modelled.            *)
(***************************************************************************)
EXTENDS Integers, Sequences, FiniteSets, TLC

None == "None"

\* ------------------------------------------------------------------ tables

bytesPerRead == 14

\* Dmm.bits: frame position -> the four (attribute, name) pairs, bit 8 first.
bits ==
  [k \in {1, 10, 11, 12, 13, 14} |->
     CASE k = 1  -> << <<"flags", "AC">>, <<"flags", "DC">>,
                       <<"flags", "AUTO">>, <<"flags", "RS232">> >>
       [] k = 10 -> << <<"scale", "micro">>, <<"scale", "nano">>,
                       <<"scale", "kilo">>, <<"measure", "diode">> >>
       [] k = 11 -> << <<"scale", "milli">>, <<"measure", "% (duty-cycle)">>,
                       <<"scale", "mega">>, <<"flags", "beep">> >>
       [] k = 12 -> << <<"measure", "Farads">>, <<"measure", "Ohms">>,
                       <<"flags", "REL delta">>, <<"flags", "Hold">> >>
       [] k = 13 -> << <<"measure", "Amps">>, <<"measure", "volts">>,
                       <<"measure", "Hertz">>, <<"other", "other_13_1">> >>
       [] k = 14 -> << <<"other", "other_14_4">>, <<"measure", "degrees Celcius">>,
                       <<"other", "other_14_2">>, <<"other", "other_14_1">> >>]

\* The order in which read() walks Dmm.bits (dict insertion order).
bitsOrder == <<1, 10, 11, 12, 13, 14>>

\* Dmm.digits: (first byte, second byte, punctuation) of each digit cell.
digits == << <<2, 3, "-">>, <<4, 5, ".">>, <<6, 7, ".">>, <<8, 9, ".">> >>

\* Dmm.digitTable with the KeyError fallback of _readDigit.
digitTable(b1, b2) ==
  CASE b1 = 0 /\ b2 = 5  -> "1"
    [] b1 = 5 /\ b2 = 11 -> "2"
    [] b1 = 1 /\ b2 = 15 -> "3"
    [] b1 = 2 /\ b2 = 7  -> "4"
    [] b1 = 3 /\ b2 = 14 -> "5"
    [] b1 = 7 /\ b2 = 14 -> "6"
    [] b1 = 1 /\ b2 = 5  -> "7"
    [] b1 = 7 /\ b2 = 15 -> "8"
    [] b1 = 3 /\ b2 = 15 -> "9"
    [] b1 = 7 /\ b2 = 13 -> "0"
    [] b1 = 6 /\ b2 = 8  -> "L"
    [] b1 = 0 /\ b2 = 0  -> " "
    [] OTHER -> "X"

\* DmmValue.scaleTable, each multiplier as its power of ten.
scaleTable(name) ==
  CASE name = "nano"  -> -9
    [] name = "micro" -> -6
    [] name = "milli" -> -3
    [] name = "kilo"  -> 3
    [] name = "mega"  -> 6

\* ------------------------------------------------------------ frame decode

\* _readDigit without line 106 (b1 %= 8): the table is looked up with the
\* whole low nibble.
readDigit_NoMask(byte1, byte2) ==
  LET b1 == byte1 % 16
      highBit == b1 \div 8
      b2 == byte2 % 16
  IN  <<highBit, digitTable(b1, b2)>>

\* Dmm._readDigit: <<highBit, digit>> of a digit cell.
readDigit(byte1, byte2) ==
  LET b1 == byte1 % 16
      highBit == b1 \div 8
      b2 == byte2 % 16
  IN  <<highBit, digitTable(b1 % 8, b2)>>

\* The loop of read() that assembles val, from cell i on.
RECURSIVE readDigits(_, _)
readDigits(bytes, i) ==
  IF i > Len(digits) THEN <<>>
  ELSE LET d == digits[i]
           r == readDigit(bytes[d[1]], bytes[d[2]])
       IN  (IF r[1] # 0 THEN <<d[3]>> ELSE <<>>) \o <<r[2]>>
             \o readDigits(bytes, i + 1)

\* Dmm._initAttribs
initAttribs == [flags |-> <<>>, scale |-> <<>>, measure |-> <<>>, other |-> <<>>]

\* The loop of Dmm._readAttribByte from entry i on, with b and bitVal as they
\* stand at the top of the iteration.
RECURSIVE readAttribLoop(_, _, _, _, _)
readAttribLoop(b, bitVal, bitList, i, attribs) ==
  IF i > Len(bitList) THEN attribs
  ELSE LET attr == bitList[i][1]
           val == bitList[i][2]
           v == b \div bitVal
       IN  IF v # 0
           THEN readAttribLoop(b - bitVal, bitVal \div 2, bitList, i + 1,
                               [attribs EXCEPT ![attr] = Append(@, val)])
           ELSE readAttribLoop(b, bitVal \div 2, bitList, i + 1, attribs)

\* Dmm._readAttribByte
readAttribByte(byte, bitList, attribs) ==
  readAttribLoop(byte % 16, 8, bitList, 1, attribs)

\* The loop of read() over Dmm.bits, from entry i of bitsOrder on.
RECURSIVE readAttribs(_, _, _)
readAttribs(bytes, i, attribs) ==
  IF i > Len(bitsOrder) THEN attribs
  ELSE LET k == bitsOrder[i]
       IN  readAttribs(bytes, i + 1, readAttribByte(bytes[k], bits[k], attribs))

\* ------------------------------------------------------------ Python helpers

\* x in list
InList(x, s) == \E i \in 1..Len(s) : s[i] = x

\* str.count of a one-character string
RECURSIVE Count(_, _)
Count(s, c) ==
  IF s = <<>> THEN 0 ELSE (IF Head(s) = c THEN 1 ELSE 0) + Count(Tail(s), c)

\* the characters of s as one string
RECURSIVE Join(_)
Join(s) == IF s = <<>> THEN "" ELSE Head(s) \o Join(Tail(s))

DigitChars == {"0", "1", "2", "3", "4", "5", "6", "7", "8", "9"}

DigitValue(c) ==
  CASE c = "0" -> 0 [] c = "1" -> 1 [] c = "2" -> 2 [] c = "3" -> 3
    [] c = "4" -> 4 [] c = "5" -> 5 [] c = "6" -> 6 [] c = "7" -> 7
    [] c = "8" -> 8 [] c = "9" -> 9

DigitChar(d) == <<"0", "1", "2", "3", "4", "5", "6", "7", "8", "9">>[d + 1]

\* str.strip() as float() applies it: leading and trailing blanks removed.
RECURSIVE LStrip(_)
LStrip(s) == IF s # <<>> /\ Head(s) = " " THEN LStrip(Tail(s)) ELSE s

RECURSIVE RStrip(_)
RStrip(s) ==
  IF s # <<>> /\ s[Len(s)] = " " THEN RStrip(SubSeq(s, 1, Len(s) - 1)) ELSE s

Strip(s) == RStrip(LStrip(s))

\* the decimal digits of s read as a natural number
RECURSIVE DigitsToNat(_)
DigitsToNat(s) ==
  IF s = <<>> THEN 0
  ELSE DigitsToNat(SubSeq(s, 1, Len(s) - 1)) * 10 + DigitValue(s[Len(s)])

\* the decimal digits of the natural number n, most significant first
RECURSIVE NatToDigits(_)
NatToDigits(n) ==
  IF n < 10 THEN <<DigitChar(n)>>
  ELSE Append(NatToDigits(n \div 10), DigitChar(n % 10))

\* float(v) over the alphabet read() can assemble (digits, '.', '-', ' ',
\* 'L', 'X'): blanks stripped, an optional leading '-', then digits with at
\* most one '.', and at least one digit.  The result is <<n>>, or <<>> where
\* float() raises ValueError.
ParseFloat(v) ==
  LET s == Strip(v)
      neg == s # <<>> /\ Head(s) = "-"
      body == IF neg THEN Tail(s) ELSE s
      dots == {i \in 1..Len(body) : body[i] = "."}
      dot == IF dots = {} THEN Len(body) + 1 ELSE CHOOSE i \in dots : TRUE
      ip == SubSeq(body, 1, dot - 1)
      fp == SubSeq(body, dot + 1, Len(body))
  IN  IF /\ Cardinality(dots) <= 1
         /\ Len(ip) + Len(fp) >= 1
         /\ \A i \in 1..Len(ip) : ip[i] \in DigitChars
         /\ \A i \in 1..Len(fp) : fp[i] \in DigitChars
      THEN <<[neg |-> neg, mant |-> DigitsToNat(ip \o fp), exp10 |-> -Len(fp)]>>
      ELSE <<>>

\* n with trailing zeros of the mantissa moved into the exponent, down to
\* exponent 0 at most (the digits a float's repr shows after the point).
RECURSIVE Normalize(_)
Normalize(n) ==
  IF n.exp10 < 0 /\ n.mant % 10 = 0
  THEN Normalize([n EXCEPT !.mant = @ \div 10, !.exp10 = @ + 1])
  ELSE n

RECURSIVE Pow10(_)
Pow10(k) == IF k = 0 THEN 1 ELSE 10 * Pow10(k - 1)

RECURSIVE Zeros(_)
Zeros(k) == IF k <= 0 THEN <<>> ELSE <<"0">> \o Zeros(k - 1)

\* '%s' % n for a float n in the range the four cells can show: sign, the
\* integer part without leading zeros, '.', the fraction without trailing
\* zeros ('0' when it is empty).
FloatStr(n) ==
  LET m == Normalize(n)
      p == Pow10(-m.exp10)
      ipart == NatToDigits(m.mant \div p)
      fdigits == NatToDigits(m.mant % p)
      fpart == IF m.exp10 = 0 THEN <<"0">>
               ELSE Zeros(-m.exp10 - Len(fdigits)) \o fdigits
  IN  (IF m.neg THEN <<"-">> ELSE <<>>) \o ipart \o <<".">> \o fpart

\* n * self.multiplier, the multiplier being 1 or a power of ten
FloatMul(n, mexp) == [n EXCEPT !.exp10 = @ + mexp]

\* ---------------------------------------------------------------- DmmValue

InvalidValueText == "Invalid Value"

\* DmmValue.processFlags
processFlags(self) ==
  LET flags == self.flags
      sane == IF InList("AC", flags) /\ InList("DC", flags)
              THEN FALSE ELSE self.saneValue
      acdc == IF InList("DC", flags) THEN "DC"
              ELSE IF InList("AC", flags) THEN "AC" ELSE None
      isDelta == InList("REL delta", flags)
  IN  [self EXCEPT !.saneValue = sane,
                   !.ACDC = acdc,
                   !.ACDCText = IF acdc # None THEN " " \o acdc ELSE "",
                   !.delta = isDelta,
                   !.deltaText = IF isDelta THEN "delta " ELSE ""]

\* processScale with line 173 as len(s) > 2.
processScale_MoreThanTwo(self) ==
  LET s == self.scaleFlags
      r == [self EXCEPT !.scale = "", !.multiplier = 0]
  IN  IF Len(s) = 0 THEN r
      ELSE IF Len(s) > 2 THEN [r EXCEPT !.saneValue = FALSE]
      ELSE [r EXCEPT !.scale = s[1], !.multiplier = scaleTable(s[1])]

\* DmmValue.processScale
processScale(self) ==
  LET s == self.scaleFlags
      r == [self EXCEPT !.scale = "", !.multiplier = 0]
  IN  IF Len(s) = 0 THEN r
      ELSE IF Len(s) > 1 THEN [r EXCEPT !.saneValue = FALSE]
      ELSE [r EXCEPT !.scale = s[1], !.multiplier = scaleTable(s[1])]

\* processMeasurement with line 182 as len(m) > 1.
processMeasurement_AtMostOne(self) ==
  LET m == self.measurementFlags
      r == [self EXCEPT !.measurement = None]
  IN  IF Len(m) > 1 THEN [r EXCEPT !.saneValue = FALSE]
      ELSE [r EXCEPT !.measurement = IF Len(m) = 1 THEN m[1] ELSE None]

\* DmmValue.processMeasurement
processMeasurement(self) ==
  LET m == self.measurementFlags
      r == [self EXCEPT !.measurement = None]
  IN  IF Len(m) # 1 THEN [r EXCEPT !.saneValue = FALSE]
      ELSE [r EXCEPT !.measurement = m[1]]

\* processVal with line 203 as "if n:", which a zero does not pass.
processVal_Truthy(self) ==
  LET v == self.rawVal
      r == [self EXCEPT !.numericVal = <<>>]
      n == ParseFloat(v)
  IN  IF InList("X", v) THEN [r EXCEPT !.saneValue = FALSE]
      ELSE IF Count(v, ".") > 1 THEN [r EXCEPT !.saneValue = FALSE]
      ELSE IF n # <<>> /\ n[1].mant # 0
           THEN [r EXCEPT !.val = FloatStr(n[1]),
                          !.numericVal = <<FloatMul(n[1], self.multiplier)>>]
           ELSE r

\* DmmValue.processVal
processVal(self) ==
  LET v == self.rawVal
      r == [self EXCEPT !.numericVal = <<>>]
      n == ParseFloat(v)
  IN  IF InList("X", v) THEN [r EXCEPT !.saneValue = FALSE]
      ELSE IF Count(v, ".") > 1 THEN [r EXCEPT !.saneValue = FALSE]
      ELSE IF n # <<>>
           THEN [r EXCEPT !.val = FloatStr(n[1]),
                          !.numericVal = <<FloatMul(n[1], self.multiplier)>>]
           ELSE r

\* DmmValue.createTextExpression
createTextExpression(self) ==
  [self EXCEPT !.text = self.deltaText \o Join(self.val) \o " " \o self.scale
                          \o self.measurement \o self.ACDCText]

\* DmmValue.__init__.  multiplier holds the multiplier's power of ten (0 for
\* 1) and numericVal is <<>> for None, <<n>> for the float n; the attributes
\* the process* methods assign start with a value of their type.
DmmValue(val, attribs, readErrors, rawBytes) ==
  LET self0 == [saneValue |-> TRUE, rawVal |-> val, val |-> val,
                flags |-> attribs.flags, scaleFlags |-> attribs.scale,
                measurementFlags |-> attribs.measure,
                reservedFlags |-> attribs.other,
                readErrors |-> readErrors, rawBytes |-> rawBytes,
                text |-> InvalidValueText,
                ACDC |-> None, ACDCText |-> "", delta |-> FALSE,
                deltaText |-> "", scale |-> "", multiplier |-> 0,
                measurement |-> None, numericVal |-> <<>>]
      self4 == processVal(processMeasurement(processScale(processFlags(self0))))
  IN  IF self4.saneValue THEN createTextExpression(self4) ELSE self4

\* Lines 45-56 of read(): decode the validated frame and build the value.
decodeFrame(bytes, readAttempt) ==
  DmmValue(readDigits(bytes, 1), readAttribs(bytes, 1, initAttribs),
           readAttempt, bytes)

\* ------------------------------------------------------------------ bounds

MaxRetries == 3
MaxFaults == 2

\* ---------------------------------------------------------------- state

VARIABLES
  pc,          \* where the program stands: "new", "idle", "attempt",
               \* "sync_read", "sync_discard", "finish", "raised", "closed"
  retries,     \* self.retries
  readAttempt, \* the loop variable of read()
  success,     \* the local success of read()
  bytes,       \* the local bytes of read(): the last 14-byte read's data
  ret,         \* the call site _synchronize returns to
  bytesNeeded, \* the local bytesNeeded of _synchronize
  exc,         \* the exception that ended the program, or None
  result,      \* <<v>> for the DmmValue v the last read() returned, else <<>>
  linePos,     \* transport: frame position of the next byte on the line
  payload,     \* transport: the low nibbles of the frame the meter repeats
  faults,      \* transport: line faults that may still happen
  op,          \* history: the operation running or last run, "init" or "read"
  attempts,    \* history: 14-byte reads made by the current read() call
  failed,      \* history: those of them that were short or misaligned
  syncCalls,   \* history: _synchronize calls since the last 14-byte read
  syncBytes,   \* history: bytes those calls read
  sy           \* history: the current or last _synchronize call

vars == <<pc, retries, readAttempt, success, bytes, ret, bytesNeeded, exc,
          result, linePos, payload, faults, op, attempts, failed, syncCalls,
          syncBytes, sy>>

\* --------------------------------------------------------------- transport

\* The position d bytes after position p of the 14-byte cycle.
Advance(p, d) == ((p - 1 + d) % bytesPerRead) + 1

\* The byte the meter sends at frame position p: position in the high
\* nibble, data in the low nibble.
LineByte(p) == 16 * p + payload[p]

\* The next n bytes of an undisturbed line.
CleanData(p, n) == [i \in 1..n |-> LineByte(Advance(p, i - 1))]

\* The high nibbles a corrupted byte at position p may show.
WrongNibbles(p) == {0, 15, Advance(p, 1)}

\* serial.Serial.read(n) with a timeout: every outcome of one call, as the
\* data returned, the line position afterwards and whether the line was
\* undisturbed.  Undisturbed, the call returns
\* the next n bytes; it may time out after k < n bytes, return a byte with a
\* corrupted high nibble, or lose a byte on the line.
SerRead(n) ==
  {[data |-> CleanData(linePos, n), pos |-> Advance(linePos, n),
    clean |-> TRUE]}
  \cup (IF faults = 0 THEN {} ELSE
    {[data |-> CleanData(linePos, k), pos |-> Advance(linePos, k),
      clean |-> FALSE] : k \in 0..(n - 1)}
    \cup
    {[data |-> [CleanData(linePos, n) EXCEPT ![jh[1]] = 16 * jh[2] + (@ % 16)],
      pos |-> Advance(linePos, n), clean |-> FALSE] :
       jh \in {x \in (1..n) \X (0..15) :
                 x[2] \in WrongNibbles(Advance(linePos, x[1] - 1))}}
    \cup
    {[data |-> CleanData(linePos, j - 1) \o CleanData(Advance(linePos, j), n - j + 1),
      pos |-> Advance(linePos, n + 1), clean |-> FALSE] :
       j \in 1..n})

\* -------------------------------------------------------------------- Dmm

\* The history of a _synchronize call that has read nothing yet: the line
\* position it starts at, the byte its one-byte read returned (-1 for none),
\* the bytes its reads returned, and whether the line was undisturbed.
NoSync == [start |-> 0, first |-> -1, consumed |-> 0, clean |-> TRUE]

\* Line 64 without the test for 15.
InvalidPos_ZeroOnly(pos) == pos = 0

\* _synchronize, line 64: the position nibble is no frame position.
InvalidPos(pos) == pos = 0 \/ pos = 15

\* Line 67 with the position taken as 0-based.
BytesNeeded_ZeroBased(pos) == bytesPerRead - 1 - pos

\* _synchronize, line 67
BytesNeeded(pos) == bytesPerRead - pos

\* The frame the line carries when the transport is exercised: the low
\* nibbles of "-1.234", milli, volts.
LinePayloads == { <<0, 8, 5, 13, 11, 1, 15, 2, 7, 0, 8, 0, 4, 0>> }

\* The call of _synchronize from call site r.
CallSync(r) ==
  /\ pc' = "sync_read"
  /\ ret' = r
  /\ sy' = NoSync

\* Dmm.__init__, lines 7-16, up to its call of _synchronize.
Construct ==
  /\ pc = "new"
  /\ CallSync("init")
  /\ syncCalls' = 1
  /\ syncBytes' = 0
  /\ UNCHANGED <<retries, readAttempt, success, bytes, bytesNeeded, exc, result,
                 linePos, payload, faults, op, attempts, failed>>

\* Dmm._synchronize, lines 59-68: the one-byte read and what it decides.
SyncReadByte ==
  /\ pc = "sync_read"
  /\ \E r \in SerRead(1) :
       LET v == r.data
           n == v[1]
           pos == n \div 16
           needed == BytesNeeded(pos)
       IN  /\ linePos' = r.pos
           /\ faults' = IF r.clean THEN faults ELSE faults - 1
           /\ syncBytes' = syncBytes + Len(v)
           /\ sy' = [start |-> linePos, first |-> IF Len(v) = 1 THEN n ELSE -1,
                     consumed |-> Len(v), clean |-> r.clean]
           /\ IF Len(v) # 1
              THEN /\ exc' = "DmmNoData"
                   /\ pc' = "raised"
                   /\ UNCHANGED bytesNeeded
              ELSE IF InvalidPos(pos)
              THEN /\ exc' = "DmmInvalidSyncValue"
                   /\ pc' = "raised"
                   /\ UNCHANGED bytesNeeded
              ELSE /\ bytesNeeded' = needed
                   /\ pc' = IF needed # 0 THEN "sync_discard" ELSE "sync_return"
                   /\ UNCHANGED exc
  /\ UNCHANGED <<retries, readAttempt, success, bytes, ret, result, payload,
                 op, attempts, failed, syncCalls>>

\* Dmm._synchronize, line 69: the read that discards the rest of the frame.
SyncDiscard ==
  /\ pc = "sync_discard"
  /\ \E r \in SerRead(bytesNeeded) :
       /\ linePos' = r.pos
       /\ faults' = IF r.clean THEN faults ELSE faults - 1
       /\ syncBytes' = syncBytes + Len(r.data)
       /\ sy' = [sy EXCEPT !.consumed = @ + Len(r.data), !.clean = @ /\ r.clean]
  /\ pc' = "sync_return"
  /\ UNCHANGED <<retries, readAttempt, success, bytes, ret, bytesNeeded, exc,
                 result, payload, op, attempts, failed, syncCalls>>

\* The for loop of read() running over range(retries + 1).
NextIteration_OneMore ==
  IF readAttempt + 1 <= retries
  THEN pc' = "attempt" /\ readAttempt' = readAttempt + 1
  ELSE pc' = "finish" /\ UNCHANGED readAttempt

\* The next iteration of the for loop of read() (line 25), or its end.
NextIteration ==
  IF readAttempt + 1 < retries
  THEN pc' = "attempt" /\ readAttempt' = readAttempt + 1
  ELSE pc' = "finish" /\ UNCHANGED readAttempt

\* The return of _synchronize to its call site: the constructor ends (line
\* 16), read() continues its loop (line 29, line 40), or read() leaves the
\* inner loop (line 34) and reaches the _synchronize of line 40.
SyncReturn ==
  /\ pc = "sync_return"
  /\ CASE ret = "init"  -> /\ pc' = "idle"
                           /\ UNCHANGED <<readAttempt, ret, sy, syncCalls>>
       [] ret = "short" -> NextIteration /\ UNCHANGED <<ret, sy, syncCalls>>
       [] ret = "inner" -> /\ CallSync("outer")
                           /\ syncCalls' = syncCalls + 1
                           /\ UNCHANGED readAttempt
       [] ret = "outer" -> NextIteration /\ UNCHANGED <<ret, sy, syncCalls>>
  /\ UNCHANGED <<retries, success, bytes, bytesNeeded, exc, result, linePos,
                 payload, faults, op, attempts, failed, syncBytes>>

\* Dmm.read, lines 24-25: the call, up to the first iteration of the loop.
\* The locals and the history start afresh; the value the last call returned
\* is dropped.
ReadCall ==
  /\ pc = "idle"
  /\ op' = "read"
  /\ success' = FALSE
  /\ bytes' = <<>>
  /\ attempts' = 0
  /\ failed' = 0
  /\ syncCalls' = 0
  /\ syncBytes' = 0
  /\ sy' = NoSync
  /\ result' = <<>>
  /\ IF retries > 0
     THEN pc' = "attempt" /\ readAttempt' = 0
     ELSE pc' = "finish" /\ UNCHANGED readAttempt
  /\ UNCHANGED <<retries, ret, bytesNeeded, exc, linePos, payload, faults>>

\* Line 32 for every position but the last.
Aligned_SkipsLast(frame) ==
  \A pos \in 1..(Len(frame) - 1) : frame[pos] \div 16 = pos

\* Line 32 for every position: the frame is aligned.
Aligned(frame) ==
  \A pos \in 1..Len(frame) : frame[pos] \div 16 = pos

\* Dmm.read, lines 26-37: one attempt, up to its success or to its first
\* call of _synchronize.
Attempt ==
  /\ pc = "attempt"
  /\ \E r \in SerRead(bytesPerRead) :
       /\ bytes' = r.data
       /\ linePos' = r.pos
       /\ faults' = IF r.clean THEN faults ELSE faults - 1
       /\ IF Len(r.data) # bytesPerRead
          THEN /\ CallSync("short")
               /\ syncCalls' = 1
               /\ failed' = failed + 1
               /\ UNCHANGED success
          ELSE IF ~Aligned(r.data)
          THEN /\ CallSync("inner")
               /\ syncCalls' = 1
               /\ failed' = failed + 1
               /\ UNCHANGED success
          ELSE /\ success' = TRUE
               /\ pc' = "finish"
               /\ syncCalls' = 0
               /\ UNCHANGED <<ret, sy, failed>>
  /\ attempts' = attempts + 1
  /\ syncBytes' = 0
  /\ UNCHANGED <<retries, readAttempt, bytesNeeded, exc, result, payload, op>>

\* Dmm.read, lines 42-56: DmmReadFailure, or the decoded value returned.
Finish ==
  /\ pc = "finish"
  /\ IF ~success
     THEN /\ exc' = "DmmReadFailure"
          /\ pc' = "raised"
          /\ UNCHANGED result
     ELSE /\ result' = <<decodeFrame(bytes, readAttempt)>>
          /\ pc' = "idle"
          /\ UNCHANGED exc
  /\ UNCHANGED <<retries, readAttempt, success, bytes, ret, bytesNeeded,
                 linePos, payload, faults, op, attempts, failed, syncCalls,
                 syncBytes, sy>>

\* Dmm.close
Close ==
  /\ pc = "idle"
  /\ pc' = "closed"
  /\ UNCHANGED <<retries, readAttempt, success, bytes, ret, bytesNeeded, exc,
                 result, linePos, payload, faults, op, attempts, failed, syncCalls,
                 syncBytes, sy>>

Next ==
  \/ Construct
  \/ SyncReadByte
  \/ SyncDiscard
  \/ SyncReturn
  \/ ReadCall
  \/ Attempt
  \/ Finish
  \/ Close

\* The program before Dmm(...) runs, with the locals of read() and
\* _synchronize unset.
Start ==
  /\ pc = "new"
  /\ readAttempt = 0
  /\ success = FALSE
  /\ bytes = <<>>
  /\ ret = "init"
  /\ bytesNeeded = 0
  /\ exc = None
  /\ result = <<>>
  /\ op = "init"
  /\ attempts = 0
  /\ failed = 0
  /\ syncCalls = 0
  /\ syncBytes = 0
  /\ sy = NoSync

\* The reader on a line that starts anywhere in a frame and may be
\* disturbed.
Init ==
  /\ Start
  /\ retries \in 0..MaxRetries
  /\ linePos \in 1..bytesPerRead
  /\ payload \in LinePayloads
  /\ faults = MaxFaults

Spec == Init /\ [][Next]_vars

\* The low nibbles of the two bytes of a digit cell, for the displays the
\* value claims are checked on.  Bit 8 of the first nibble is the cell's
\* punctuation.
Cell1Nibbles == {<<0, 5>>, <<8, 5>>, <<0, 0>>, <<8, 0>>, <<6, 8>>}
Cell2Nibbles == {<<7, 13>>, <<15, 13>>, <<0, 0>>, <<12, 4>>}
Cell3Nibbles == {<<3, 14>>, <<11, 14>>, <<0, 0>>}
Cell4Nibbles == {<<5, 11>>, <<13, 11>>, <<0, 0>>}

\* The low nibbles of the flag bytes 1, 10, 11, 12, 13: no flag, one flag
\* and several flags of each attribute.
Byte1Nibbles == {0, 8, 12, 7}
Byte10Nibbles == {0, 8, 12}
Byte11Nibbles == {0, 5}
Byte12Nibbles == {0, 3, 4}
Byte13Nibbles == {0, 5}

\* The frames the meter sends when the decoder and DmmValue are exercised.
ValuePayloads ==
  {<<f1, c1[1], c1[2], c2[1], c2[2], c3[1], c3[2], c4[1], c4[2],
     f10, f11, f12, f13, 0>> :
     f1 \in Byte1Nibbles, c1 \in Cell1Nibbles, c2 \in Cell2Nibbles,
     c3 \in Cell3Nibbles, c4 \in Cell4Nibbles, f10 \in Byte10Nibbles,
     f11 \in Byte11Nibbles, f12 \in Byte12Nibbles, f13 \in Byte13Nibbles}

\* The reader on an undisturbed, aligned line, with the default retries, for
\* every frame of ValuePayloads.
InitValue ==
  /\ Start
  /\ retries = 3
  /\ linePos = 1
  /\ payload \in ValuePayloads
  /\ faults = 0

SpecValue == InitValue /\ [][Next]_vars

\* ------------------------------------------------------------------ claims

\* The DmmValue the last read() returned.
value == result[1]
returned == result # <<>>
raisedInRead == pc = "raised" /\ op = "read"

\* C3 as stated: read() makes at most R attempts, and a read() that ends
\* without a valid frame ends with DmmReadFailure after its R-th attempt,
\* whatever the resynchronisation reads return.
C3_FailureIsReadFailure ==
  /\ attempts <= retries
  /\ raisedInRead => exc = "DmmReadFailure" /\ attempts = retries

\* C3 amended: read() makes at most R attempts; it raises DmmReadFailure only
\* after R attempts that all failed, and it reaches the end of the loop
\* without success only then; a read() that fails otherwise fails inside a
\* resynchronisation, with DmmNoData when its one-byte read returned nothing
\* and with DmmInvalidSyncValue when that byte's high nibble is 0 or 15.
C3_FailureOfRead ==
  /\ attempts <= retries
  /\ (pc = "finish" /\ ~success) => attempts = retries /\ failed = retries
  /\ raisedInRead =>
       \/ exc = "DmmReadFailure" /\ ~success /\ attempts = retries
            /\ failed = retries
       \/ exc = "DmmNoData" /\ sy.first = -1 /\ failed = attempts
       \/ exc = "DmmInvalidSyncValue" /\ sy.first # -1
            /\ sy.first \div 16 \in {0, 15} /\ failed = attempts

\* C3 witness: two short reads, each followed by a resynchronisation that
\* succeeded, exhausted a retry limit of 2 and read() raised DmmReadFailure.
C3_Witness ==
  /\ raisedInRead
  /\ exc = "DmmReadFailure"
  /\ retries = 2
  /\ attempts = 2
  /\ Len(bytes) < bytesPerRead
  /\ ret = "short"

\* C4: a _synchronize call whose reads met an undisturbed line read a byte
\* of position p in 1..14, took exactly 1 + (14 - p) bytes and left the line
\* at frame position 1; and no such call raises.
C4_SyncAligns ==
  /\ (pc = "sync_return" /\ sy.clean) =>
       LET p == sy.first \div 16
       IN  /\ p \in 1..14
           /\ p = sy.start
           /\ sy.consumed = 1 + (14 - p)
           /\ linePos = 1
           /\ exc = None
  /\ (pc = "raised" /\ exc \in {"DmmNoData", "DmmInvalidSyncValue"}) => ~sy.clean

\* C4 witness: inside read(), a call that started at position 5 on an
\* undisturbed line has returned after 10 bytes.
C4_Witness ==
  /\ pc = "sync_return"
  /\ op = "read"
  /\ sy.clean
  /\ sy.first \div 16 = 5
  /\ sy.consumed = 10
  /\ linePos = 1

\* C5: a value read() returned carries 14 bytes, byte i with high nibble i;
\* its retry count is the number of failed attempts before it, in 0..R-1;
\* and a 14-byte read that is aligned ends the loop at once.
C5_ValueFromAlignedFrame ==
  /\ returned =>
       /\ Len(value.rawBytes) = 14
       /\ \A i \in 1..14 : value.rawBytes[i] \div 16 = i
       /\ value.rawBytes = bytes
       /\ value.readErrors = failed
       /\ value.readErrors = attempts - 1
       /\ value.readErrors \in 0..(retries - 1)
  /\ (Len(bytes) = 14 /\ \A i \in 1..14 : bytes[i] \div 16 = i) =>
       success /\ pc \in {"finish", "idle", "closed"}
  /\ success => Len(bytes) = 14 /\ \A i \in 1..14 : bytes[i] \div 16 = i

\* C5 witness: read() returned a value after two failed attempts.
C5_Witness ==
  /\ returned
  /\ pc = "idle"
  /\ value.readErrors = 2
  /\ failed = 2

\* C8: whenever the one-byte read of _synchronize returned a byte whose high
\* nibble is 0 or 15, the call raised DmmInvalidSyncValue having taken that
\* one byte only, the line standing one position after where the call began;
\* and DmmInvalidSyncValue is raised in no other case.
C8_InvalidMarker ==
  /\ (sy.first # -1 /\ sy.first \div 16 \in {0, 15}) =>
       /\ pc = "raised"
       /\ exc = "DmmInvalidSyncValue"
       /\ sy.consumed = 1
       /\ linePos = Advance(sy.start, 1)
  /\ exc = "DmmInvalidSyncValue" =>
       pc = "raised" /\ sy.first # -1 /\ sy.first \div 16 \in {0, 15}

\* C8 witness: a byte with high nibble 15 ended a _synchronize call.
C8_Witness ==
  /\ pc = "raised"
  /\ exc = "DmmInvalidSyncValue"
  /\ sy.first \div 16 = 15
  /\ sy.consumed = 1

\* C10 as stated: between two 14-byte reads of read() there is at most one
\* _synchronize call, which takes at most 14 bytes from the line.
C10_ResyncsOnce ==
  op = "read" => syncCalls <= 1 /\ syncBytes <= bytesPerRead

\* The five conditions DmmValue tests, read off the value's inputs.
acAndDc == InList("AC", value.flags) /\ InList("DC", value.flags)
hasX == \E i \in 1..Len(value.rawVal) : value.rawVal[i] = "X"
dotCount == Cardinality({i \in 1..Len(value.rawVal) : value.rawVal[i] = "."})

\* The assembled string reads as a decimal number: it has a digit, no 'L',
\* and no blank between two characters that are not blank.
DecimalShape(v) ==
  /\ \E i \in 1..Len(v) : v[i] \in DigitChars
  /\ \A i \in 1..Len(v) : v[i] # "L"
  /\ \A i, j, k \in 1..Len(v) :
       (i < j /\ j < k /\ v[i] # " " /\ v[k] # " ") => v[j] # " "

\* C1 as stated: a value that is not sane has the text "Invalid Value" and
\* no numeric value.
C1_InsaneHasNoNumber ==
  (returned /\ ~value.saneValue) =>
    value.text = InvalidValueText /\ value.numericVal = <<>>

\* C2 as stated: a sane value has a numeric value and a text other than
\* "Invalid Value".
C2_SaneHasNumber ==
  (returned /\ value.saneValue) =>
    value.numericVal # <<>> /\ value.text # InvalidValueText

\* C2 amended: a sane value has a text other than "Invalid Value", and it
\* has a numeric value exactly when its assembled string reads as a decimal
\* number; a string of 'L', blanks or a lone '-' gives a sane value without
\* a numeric value.
C2_SaneHasText ==
  (returned /\ value.saneValue) =>
    /\ value.text # InvalidValueText
    /\ value.numericVal # <<>> <=> DecimalShape(value.rawVal)

\* C2 witness: a sane value whose display shows the overload glyph 'L' and
\* has no numeric value.
C2_Witness ==
  /\ returned
  /\ value.saneValue
  /\ InList("L", value.rawVal)
  /\ value.numericVal = <<>>
  /\ value.text # InvalidValueText

\* C6 as stated: a value with no scale flag or with two or more is not sane.
C6_ZeroOrManyScalesInsane ==
  (returned /\ Len(value.scaleFlags) # 1) => ~value.saneValue

\* C6 amended: a value with two or more scale flags is not sane; a value
\* with no scale flag has multiplier 1 and an empty scale label, and is sane
\* when the other four conditions hold.
C6_ManyScalesInsane ==
  returned =>
    /\ Len(value.scaleFlags) >= 2 => ~value.saneValue
    /\ Len(value.scaleFlags) = 0 =>
         /\ value.multiplier = 0
         /\ value.scale = ""
         /\ value.saneValue <=>
              (~acAndDc /\ Len(value.measurementFlags) = 1 /\ ~hasX
                 /\ dotCount <= 1)

\* C6 witness: two scale flags alone made a value not sane.
C6_Witness ==
  /\ returned
  /\ Len(value.scaleFlags) = 2
  /\ ~value.saneValue
  /\ ~acAndDc /\ Len(value.measurementFlags) = 1 /\ ~hasX /\ dotCount <= 1

\* C7: a value is sane exactly when AC and DC are not both set, it has at
\* most one scale flag and exactly one measurement flag, and its assembled
\* string has no 'X' and at most one '.'.
C7_SaneIff ==
  returned =>
    (value.saneValue <=>
       /\ ~acAndDc
       /\ Len(value.scaleFlags) <= 1
       /\ Len(value.measurementFlags) = 1
       /\ ~hasX
       /\ dotCount <= 1)

\* C7 witness: a sane value with AUTO, RS232, REL delta, Hold and a reserved
\* flag set, whose string does not parse as a number.
C7_Witness ==
  /\ returned
  /\ value.saneValue
  /\ InList("AUTO", value.flags) /\ InList("RS232", value.flags)
  /\ InList("REL delta", value.flags) /\ InList("Hold", value.flags)
  /\ value.reservedFlags # <<>>
  /\ value.numericVal = <<>>

\* The digit table as the set of its twelve entries.
GlyphTable ==
  {<<0, 5, "1">>, <<5, 11, "2">>, <<1, 15, "3">>, <<2, 7, "4">>,
   <<3, 14, "5">>, <<7, 14, "6">>, <<1, 5, "7">>, <<7, 15, "8">>,
   <<3, 15, "9">>, <<7, 13, "0">>, <<6, 8, "L">>, <<0, 0, " ">>}

\* The text of digit cell c of frame f as C9 states it: bytes 2c and 2c + 1,
\* '-' (cell 1) or '.' before the glyph when bit 8 of the first low nibble
\* is set, the glyph of the table entry or 'X'.
CellText(f, c) ==
  LET lowA == f[2 * c] - 16 * (2 * c)
      lowB == f[2 * c + 1] - 16 * (2 * c + 1)
      bit8 == lowA >= 8
      key == <<IF bit8 THEN lowA - 8 ELSE lowA, lowB>>
      hits == {e \in GlyphTable : e[1] = key[1] /\ e[2] = key[2]}
      glyph == IF hits = {} THEN "X" ELSE (CHOOSE e \in hits : TRUE)[3]
  IN  (IF bit8 THEN <<IF c = 1 THEN "-" ELSE ".">> ELSE <<>>) \o <<glyph>>

\* C9: the raw value string of a returned value is the four cell texts of
\* its frame in order, and a string with an 'X' makes the value not sane.
C9_DigitDecoding ==
  returned =>
    /\ value.rawVal = CellText(value.rawBytes, 1) \o CellText(value.rawBytes, 2)
                        \o CellText(value.rawBytes, 3) \o CellText(value.rawBytes, 4)
    /\ hasX => ~value.saneValue

\* C9 witness: a frame whose second cell has bit 8 set and a pair that is
\* not in the table decoded to '.', 'X' and a value that is not sane, while
\* its first cell decoded to '-', '1'.
C9_Witness ==
  /\ returned
  /\ SubSeq(value.rawVal, 1, 4) = <<"-", "1", ".", "X">>
  /\ ~value.saneValue

====
